---- MODULE Spec2Model ----
(***************************************************************************)
(* Model of the ziggurat viewer (src/src/main.rs): PLY parsing, buffer     *)
(* binding, shader set-up, the key listeners and the self-rescheduling     *)
(* frame callback State::animate.                                          *)
(*                                                                         *)
(* Units.  Timestamps are integers (milliseconds).  Angles are integers    *)
(* in milliradians, so that  dt * 0.001 rad  is  dt  milliradians.         *)
(* f32 vertex data is carried as integers; a quotient of two f32 values    *)
(* is carried as a record (see F32Div).                                    *)
(* A 4x4 matrix is carried as the word of non-identity factors whose       *)
(* product it is: the identity is the empty word and the matrix product    *)
(* is concatenation.                                                       *)
(*                                                                         *)
(* Host.  A panic (unwrap on None) ends main: pc = "aborted" has no        *)
(* successor.  Callbacks run one at a time, only once main has reached     *)
(* stdweb::event_loop(); every frame callback gets a timestamp later than  *)
(* the previous one.  The GL context is never lost, so create_buffer,      *)
(* create_shader and create_program return a handle.                       *)
(***************************************************************************)
EXTENDS Integers, Sequences, FiniteSets, TLC

(***************************************************************************)
(* Bounds of the model.                                                    *)
(***************************************************************************)
MaxVerts == 3
MaxFaces == 2
MaxTick == 2

(***************************************************************************)
(* Program constants.                                                      *)
(***************************************************************************)
U16 == 65536
UP == 1
DOWN == 2
LEFT == 4
RIGHT == 8

(***************************************************************************)
(* ply_rs::ply::Property as seen by x.get(name): a type tag and a value;   *)
(* the tag "None" stands for a key that is absent from the element.        *)
(***************************************************************************)
Prop(t, v) == [type |-> t, val |-> v]

NoProp == Prop("None", 0)

Float(v) == Prop("Float", v)

UChar(v) == Prop("UChar", v)

Vertex(x, y, z, nx, ny, nz, r, g, b) ==
    [x |-> x, y |-> y, z |-> z, nx |-> nx, ny |-> ny, nz |-> nz,
     red |-> r, green |-> g, blue |-> b]

Face(p) == [vertex_indices |-> p]

(***************************************************************************)
(* (a as f32) / (b as f32) for non-negative a and b: IEEE division never   *)
(* traps; x/0 is +inf for x > 0 and 0/0 is NaN.                            *)
(***************************************************************************)
F32Div(a, b) ==
    IF b # 0 THEN [kind |-> "finite", num |-> a, den |-> b]
    ELSE IF a # 0 THEN [kind |-> "inf", num |-> a, den |-> b]
    ELSE [kind |-> "nan", num |-> a, den |-> b]

(***************************************************************************)
(* PlyMesh::parse.  A document is the payload read_ply produced: for each  *)
(* of the two element names, whether the key is present and its elements.  *)
(***************************************************************************)
VertexTriple(e) ==
    IF e.x.type = "Float" /\ e.y.type = "Float" /\ e.z.type = "Float"
    THEN <<e.x.val, e.y.val, e.z.val>>
    ELSE << >>

NormalTriple(e) ==
    IF e.nx.type = "Float" /\ e.ny.type = "Float" /\ e.nz.type = "Float"
    THEN <<e.nx.val, e.ny.val, e.nz.val>>
    ELSE << >>

ColorTriple(e) ==
    IF e.red.type = "UChar" /\ e.green.type = "UChar" /\ e.blue.type = "UChar"
    THEN <<F32Div(e.red.val, 255), F32Div(e.green.val, 255), F32Div(e.blue.val, 255)>>
    ELSE << >>

AsU16(x) == x % U16

FaceIndicesOneBased(e) ==
    IF e.vertex_indices.type = "ListUInt"
    THEN [i \in 1..Len(e.vertex_indices.val) |-> AsU16(e.vertex_indices.val[i] + 1)]
    ELSE << >>

FaceIndices(e) ==
    IF e.vertex_indices.type = "ListUInt"
    THEN [i \in 1..Len(e.vertex_indices.val) |-> AsU16(e.vertex_indices.val[i])]
    ELSE << >>

RECURSIVE Vertices(_)
Vertices(elems) ==
    IF elems = << >> THEN << >>
    ELSE VertexTriple(Head(elems)) \o Vertices(Tail(elems))

RECURSIVE Normals(_)
Normals(elems) ==
    IF elems = << >> THEN << >>
    ELSE NormalTriple(Head(elems)) \o Normals(Tail(elems))

RECURSIVE Colors(_)
Colors(elems) ==
    IF elems = << >> THEN << >>
    ELSE ColorTriple(Head(elems)) \o Colors(Tail(elems))

RECURSIVE Indices(_)
Indices(elems) ==
    IF elems = << >> THEN << >>
    ELSE FaceIndices(Head(elems)) \o Indices(Tail(elems))

NoMesh ==
    [panic |-> FALSE, vertices |-> << >>, normals |-> << >>, colors |-> << >>,
     indices |-> << >>, logs |-> 0]

(* one console!(log, "Something else") per element that takes the `_` arm *)
VertexLogs(doc) ==
    Cardinality({i \in DOMAIN doc.vertex.elems : VertexTriple(doc.vertex.elems[i]) = << >>})
    + Cardinality({i \in DOMAIN doc.vertex.elems : NormalTriple(doc.vertex.elems[i]) = << >>})
    + Cardinality({i \in DOMAIN doc.vertex.elems : ColorTriple(doc.vertex.elems[i]) = << >>})

FaceLogs(doc) ==
    Cardinality({i \in DOMAIN doc.face.elems : doc.face.elems[i].vertex_indices.type # "ListUInt"})

ParseLenient(doc) ==
    IF ~doc.vertex.present THEN [NoMesh EXCEPT !.panic = TRUE]
    ELSE [panic |-> FALSE,
          vertices |-> Vertices(doc.vertex.elems),
          normals |-> Normals(doc.vertex.elems),
          colors |-> Colors(doc.vertex.elems),
          indices |-> Indices(doc.face.elems),
          logs |-> VertexLogs(doc) + FaceLogs(doc)]

(* .get("vertex").unwrap() panics first, .get("face").unwrap() after the   *)
(* three vertex passes have run and logged.                                *)
Parse(doc) ==
    IF ~doc.vertex.present THEN [NoMesh EXCEPT !.panic = TRUE]
    ELSE IF ~doc.face.present
    THEN [NoMesh EXCEPT !.panic = TRUE, !.logs = VertexLogs(doc)]
    ELSE [panic |-> FALSE,
          vertices |-> Vertices(doc.vertex.elems),
          normals |-> Normals(doc.vertex.elems),
          colors |-> Colors(doc.vertex.elems),
          indices |-> Indices(doc.face.elems),
          logs |-> VertexLogs(doc) + FaceLogs(doc)]

(***************************************************************************)
(* Mesh::bind and BoundMesh::new.  A buffer handle is the position of the  *)
(* buffer in gl_buffers; create_buffer appends.                            *)
(***************************************************************************)
NoBoundMesh ==
    [num_indices |-> 0, vertex_buffer |-> 0, normal_buffer |-> 0,
     color_buffer |-> 0, index_buffer |-> 0]

BoundMeshNew(num_indices, vertex_buffer, normal_buffer, color_buffer, index_buffer) ==
    [num_indices |-> num_indices, vertex_buffer |-> vertex_buffer,
     normal_buffer |-> normal_buffer, color_buffer |-> color_buffer,
     index_buffer |-> index_buffer]

NumIndices(m) == AsU16(Len(m.indices))

BindBuffers(m) ==
    << [target |-> "ARRAY_BUFFER", data |-> m.vertices],
       [target |-> "ARRAY_BUFFER", data |-> m.normals],
       [target |-> "ARRAY_BUFFER", data |-> m.colors],
       [target |-> "ELEMENT_ARRAY_BUFFER", data |-> m.indices] >>

BindShared(m, base) ==
    BoundMeshNew(NumIndices(m), base + 1, base + 2, base + 3, base + 3)

(* Mesh::bind: the four create_buffer handles are the next four of the     *)
(* context, in the order vertex, normal, color, index                      *)
Bind(m, base) ==
    BoundMeshNew(NumIndices(m), base + 1, base + 2, base + 3, base + 4)

(***************************************************************************)
(* The Keys bitflags (a u8) and the two key listeners.                     *)
(***************************************************************************)
Contains(k, flag) == (k \div flag) % 2 = 1

InsertToggle(k, flag) == IF Contains(k, flag) THEN k - flag ELSE k + flag

Insert(k, flag) == IF Contains(k, flag) THEN k ELSE k + flag

Remove(k, flag) == IF Contains(k, flag) THEN k - flag ELSE k

KeyCodes == {"KeyW", "KeyS", "KeyA", "KeyD", "KeyQ"}

MovementCodes == {"KeyW", "KeyS", "KeyA", "KeyD"}

KeyDownHandler(k, code) ==
    CASE code = "KeyA" -> Insert(k, LEFT)
      [] code = "KeyW" -> Insert(k, UP)
      [] code = "KeyS" -> Insert(k, DOWN)
      [] code = "KeyD" -> Insert(k, RIGHT)
      [] OTHER -> k

KeyUpHandlerIgnored(k, code) == k

KeyUpHandler(k, code) ==
    CASE code = "KeyA" -> Remove(k, LEFT)
      [] code = "KeyW" -> Remove(k, UP)
      [] code = "KeyS" -> Remove(k, DOWN)
      [] code = "KeyD" -> Remove(k, RIGHT)
      [] OTHER -> k

(***************************************************************************)
(* Matrices (words of factors) and the rotation of State::animate.         *)
(***************************************************************************)
Identity == << >>

FromEuler(e) ==
    IF e.x = 0 /\ e.y = 0 /\ e.z = 0 THEN Identity
    ELSE << [kind |-> "rot", x |-> e.x, y |-> e.y, z |-> e.z] >>

FromTranslationZero(x, y, z) == Identity

FromTranslation(x, y, z) ==
    IF x = 0 /\ y = 0 /\ z = 0 THEN Identity
    ELSE << [kind |-> "trans", x |-> x, y |-> y, z |-> z] >>

MatMul(a, b) == a \o b

AsI8(b) == IF b THEN 1 ELSE 0

PitchOfUpOnly(d, k) == d * AsI8(Contains(k, UP))

(* dt * 0.001 * rate radians, in milliradians *)
PitchOf(d, k) == d * (AsI8(Contains(k, UP)) - AsI8(Contains(k, DOWN)))

YawOf(d, k) == d * (AsI8(Contains(k, RIGHT)) - AsI8(Contains(k, LEFT)))

EulerOfRoll(d, k) == [x |-> PitchOf(d, k), y |-> YawOf(d, k), z |-> d]

EulerOf(d, k) == [x |-> PitchOf(d, k), y |-> YawOf(d, k), z |-> 0]

Aspect(w, h) == F32Div(w, h)

(***************************************************************************)
(* Inputs: the two embedded documents, what the GL host makes of the       *)
(* shader sources, and the layout size of the canvas.                      *)
(***************************************************************************)
VA == Vertex(Float(0), Float(0), Float(0), Float(0), Float(0), Float(1), UChar(255), UChar(0), UChar(0))

VB == Vertex(Float(1), Float(0), Float(0), Float(0), Float(0), Float(1), UChar(0), UChar(255), UChar(0))

VC == Vertex(Float(0), Float(1), Float(0), Float(0), Float(0), Float(1), UChar(0), UChar(0), UChar(255))

VNoRed == [VB EXCEPT !.red = NoProp]

VFloatRed == [VC EXCEPT !.red = Prop("Float", 1)]

VDoubleX == [VA EXCEPT !.x = Prop("Double", 0)]

VertexKinds == {VA, VB, VC, VNoRed, VFloatRed, VDoubleX}

FaceKinds ==
    { Face(Prop("ListUInt", <<0, 1, 2>>)), Face(Prop("ListUInt", <<2, 1, 0>>)),
      Face(Prop("ListUInt", <<0, 1, 2, 3>>)), Face(Prop("ListUInt", <<U16 + 1, 1, 2>>)),
      Face(Prop("ListInt", <<0, 1, 2>>)), Face(NoProp) }

SeqsUpTo(S, n) == UNION {[1..k -> S] : k \in 0..n}

Element(present, elems) == [present |-> present, elems |-> elems]

Doc(v, f) == [vertex |-> v, face |-> f]

TriangleDoc ==
    Doc(Element(TRUE, <<VA, VB, VC>>),
        Element(TRUE, <<Face(Prop("ListUInt", <<0, 1, 2>>))>>))

NoVertexDoc == Doc(Element(FALSE, << >>), TriangleDoc.face)

NoFaceDoc == Doc(TriangleDoc.vertex, Element(FALSE, << >>))

LongFaceDoc(n) ==
    Doc(TriangleDoc.vertex,
        Element(TRUE, <<Face(Prop("ListUInt", [i \in 1..n |-> i % 3]))>>))

MainDocs == {TriangleDoc, NoVertexDoc, NoFaceDoc}

ParseDocs ==
    { Doc(Element(TRUE, v), Element(TRUE, f)) :
        v \in SeqsUpTo(VertexKinds, MaxVerts), f \in SeqsUpTo(FaceKinds, MaxFaces) }
    \cup { Doc(Element(FALSE, << >>), Element(TRUE, f)) : f \in SeqsUpTo(FaceKinds, 1) }
    \cup { Doc(Element(TRUE, v), Element(FALSE, << >>)) : v \in SeqsUpTo(VertexKinds, 1) }
    \cup { LongFaceDoc(n) : n \in {U16 - 1, U16, U16 + 3} }

Uniforms == {"Pmatrix", "Vmatrix", "Mmatrix"}

Attribs == {"position", "color", "normal"}

AllNames == Uniforms \cup Attribs

ShaderEnvs ==
    [vs : BOOLEAN, fs : BOOLEAN, link : BOOLEAN,
     active : {AllNames, AllNames \ {"Pmatrix"}, AllNames \ {"color"}}]

Sizes == {<<0, 0>>, <<4, 0>>, <<4, 3>>}

Times == {16 * k : k \in 1..MaxTick}

(***************************************************************************)
(* Shader::new and the location lookups of main.  A program that did not   *)
(* link has no active uniforms or attributes: get_uniform_location gives   *)
(* None and get_attrib_location gives -1.                                  *)
(***************************************************************************)
ShaderNew(env) == [linked |-> env.vs /\ env.fs /\ env.link]

NoProgram == [linked |-> FALSE]

GetUniformLocation(prog, env, name) ==
    IF prog.linked /\ name \in env.active THEN name ELSE "None"

AttribIndex(name) ==
    CASE name = "position" -> 0
      [] name = "normal" -> 1
      [] name = "color" -> 2

GetAttribLocation(prog, env, name) ==
    IF prog.linked /\ name \in env.active THEN AttribIndex(name) ELSE -1

(* i32 as u32, the 32 bits kept as two 16-bit halves: -1 is 0xFFFF_FFFF *)
AsU32(x) == [hi |-> (x \div U16) % U16, lo |-> x % U16]

NoLocations ==
    [p_matrix |-> "None", v_matrix |-> "None", m_matrix |-> "None",
     position |-> AsU32(0), color |-> AsU32(0), normal |-> AsU32(0)]

LookupPanics(prog, env) ==
    \E n \in Uniforms : GetUniformLocation(prog, env, n) = "None"

Lookup(prog, env) ==
    [p_matrix |-> GetUniformLocation(prog, env, "Pmatrix"),
     v_matrix |-> GetUniformLocation(prog, env, "Vmatrix"),
     m_matrix |-> GetUniformLocation(prog, env, "Mmatrix"),
     position |-> AsU32(GetAttribLocation(prog, env, "position")),
     color |-> AsU32(GetAttribLocation(prog, env, "color")),
     normal |-> AsU32(GetAttribLocation(prog, env, "normal"))]

VARIABLES
    pc,             \* where main is: "setup" .. "event_loop", or "aborted"
    peon_ply,       \* models/peon.ply as read by read_ply
    ziggurat_ply,   \* models/ziggurat.ply as read by read_ply
    shader_env,     \* what the host makes of the two shader sources
    offset,         \* <<offset_width, offset_height>> of the canvas element
    canvas,         \* <<width, height>> of the canvas
    mesh,           \* the PlyMesh returned by parse, until it is bound
    gl_buffers,     \* the buffers of the context, by handle
    peon,           \* BoundMesh
    ziggurat,       \* BoundMesh
    shader,         \* Shader.program
    locations,      \* position, normal, color, p_matrix, v_matrix, m_matrix
    time_old,       \* State.time_old
    mov_matrix,     \* State.mov_matrix
    view_matrix,    \* State.view_matrix
    keys,           \* State.keys
    prev_keys,      \* State.prev_keys
    raf_pending,    \* callbacks registered with request_animation_frame
    frames,         \* number of State::animate invocations so far
    frame_time,     \* the timestamp passed to the last invocation
    dt,             \* dt of the last invocation
    euler,          \* the Euler angles of the last invocation
    proj_aspect,    \* PerspectiveFov.aspect of the last invocation
    frame_trace,    \* the steps of the last invocation, in order
    console,        \* number of console!(log, ..) lines written
    last_press,     \* per movement key: was its latest event a press
    tap,            \* "since": a movement key was pressed since the last frame;
                    \* "frame": one was pressed between the last two frames
    borrow          \* the borrow flag of the RefCell<State>: 0 unused,
                    \* 1 mutably borrowed

vars ==
    <<pc, peon_ply, ziggurat_ply, shader_env, offset, canvas, mesh, gl_buffers,
      peon, ziggurat, shader, locations, time_old, mov_matrix, view_matrix,
      keys, prev_keys, raf_pending, frames, frame_time, dt, euler, proj_aspect,
      frame_trace, console, last_press, tap, borrow>>

inputs == <<peon_ply, ziggurat_ply, shader_env>>

state_vars == <<time_old, mov_matrix, view_matrix, keys, prev_keys>>

frame_vars == <<raf_pending, frames, frame_time, dt, euler, proj_aspect, frame_trace>>

init_vars == <<mesh, gl_buffers, peon, ziggurat, shader, locations>>

InitRest ==
    /\ mesh = NoMesh
    /\ gl_buffers = << >>
    /\ peon = NoBoundMesh
    /\ ziggurat = NoBoundMesh
    /\ shader = NoProgram
    /\ locations = NoLocations
    /\ time_old = 0
    /\ mov_matrix = Identity
    /\ view_matrix = Identity
    /\ keys = 0
    /\ prev_keys = 0
    /\ raf_pending = 0
    /\ frames = 0
    /\ frame_time = 0
    /\ dt = 0
    /\ euler = EulerOf(0, 0)
    /\ proj_aspect = F32Div(1, 1)
    /\ frame_trace = << >>
    /\ console = 0
    /\ last_press = [c \in MovementCodes |-> FALSE]
    /\ tap = "none"
    /\ borrow = 0

Init ==
    /\ pc = "setup"
    /\ peon_ply \in MainDocs
    /\ ziggurat_ply \in MainDocs
    /\ shader_env \in ShaderEnvs
    /\ offset \in Sizes
    /\ canvas = <<300, 150>>
    /\ InitRest

(* main, lines 388-405: size the canvas, register the resize listener *)
SetupCanvas ==
    /\ pc = "setup"
    /\ canvas' = offset
    /\ pc' = "parse_peon"
    /\ UNCHANGED <<inputs, offset, init_vars, state_vars, frame_vars, console, last_press, tap, borrow>>

ParseStep(doc, next) ==
    LET m == Parse(doc) IN
    /\ console' = console + m.logs
    /\ IF m.panic
       THEN pc' = "aborted" /\ mesh' = mesh
       ELSE pc' = next /\ mesh' = m
    /\ UNCHANGED <<inputs, offset, canvas, gl_buffers, peon, ziggurat, shader,
                   locations, state_vars, frame_vars, last_press, tap, borrow>>

BindStep(next) ==
    /\ gl_buffers' = gl_buffers \o BindBuffers(mesh)
    /\ mesh' = NoMesh
    /\ pc' = next
    /\ UNCHANGED <<inputs, offset, canvas, shader, locations, state_vars,
                   frame_vars, console, last_press, tap, borrow>>

(* main, line 408 *)
ParsePeon == pc = "parse_peon" /\ ParseStep(peon_ply, "bind_peon")

BindPeon ==
    /\ pc = "bind_peon"
    /\ peon' = Bind(mesh, Len(gl_buffers))
    /\ ziggurat' = ziggurat
    /\ BindStep("parse_ziggurat")

(* main, line 411 *)
ParseZiggurat == pc = "parse_ziggurat" /\ ParseStep(ziggurat_ply, "bind_ziggurat")

BindZiggurat ==
    /\ pc = "bind_ziggurat"
    /\ ziggurat' = Bind(mesh, Len(gl_buffers))
    /\ peon' = peon
    /\ BindStep("shader")

(* main, lines 413-444 *)
MakeShader ==
    /\ pc = "shader"
    /\ shader' = ShaderNew(shader_env)
    /\ console' = console + 3
    /\ pc' = "locations"
    /\ UNCHANGED <<inputs, offset, canvas, mesh, gl_buffers, peon, ziggurat,
                   locations, state_vars, frame_vars, last_press, tap, borrow>>

(* main, lines 447-459 *)
LookupLocations ==
    /\ pc = "locations"
    /\ IF LookupPanics(shader, shader_env)
       THEN pc' = "aborted" /\ locations' = locations
       ELSE pc' = "construct" /\ locations' = Lookup(shader, shader_env)
    /\ UNCHANGED <<inputs, offset, canvas, mesh, gl_buffers, peon, ziggurat,
                   shader, state_vars, frame_vars, console, last_press, tap, borrow>>

(* main, lines 461-500: build the State, register the two key listeners *)
ConstructState ==
    /\ pc = "construct"
    /\ time_old' = 0
    /\ mov_matrix' = Identity
    /\ view_matrix' = FromTranslation(0, 0, -6)
    /\ keys' = 0
    /\ prev_keys' = 0
    /\ pc' = "first_frame"
    /\ UNCHANGED <<inputs, offset, canvas, init_vars, frame_vars, console, last_press, tap, borrow>>

(***************************************************************************)
(* State::animate, lines 247-350.                                          *)
(***************************************************************************)
Step(op, a, b) == [op |-> op, a |-> a, b |-> b]

DtReversed(time, old) == old - time

Dt(time, old) == time - old

NewMovMatrix(m, d, k) == MatMul(m, FromEuler(EulerOf(d, k)))

ProjMatrix(w, h) ==
    << [kind |-> "persp", fovy |-> 80, aspect |-> Aspect(w, h), near |-> 1, far |-> 100] >>

(* lines 249-284: the transform update, the GL state, viewport and clear *)
FrameSetup(time, mov, w, h) ==
    << Step("mov_matrix", mov, 0),
       Step("time_old", time, 0),
       Step("enable", "DEPTH_TEST", 0),
       Step("depth_func", "LEQUAL", 0),
       Step("clear_color", <<0, 0, 0, 1>>, 0),
       Step("clear_depth", 1, 0),
       Step("cull_face", "FRONT_AND_BACK", 0),
       Step("viewport", w, h),
       Step("clear", "COLOR_BUFFER_BIT|DEPTH_BUFFER_BIT", 0),
       Step("use_program", shader, 0),
       Step("enable_vertex_attrib_array", locations.position, 0),
       Step("enable_vertex_attrib_array", locations.color, 0),
       Step("enable_vertex_attrib_array", locations.normal, 0) >>

DrawMeshSharedIndex(m, mov, w, h) ==
    << Step("bind_buffer", "ARRAY_BUFFER", m.vertex_buffer),
       Step("vertex_attrib_pointer", locations.position, 3),
       Step("bind_buffer", "ARRAY_BUFFER", m.color_buffer),
       Step("vertex_attrib_pointer", locations.color, 3),
       Step("bind_buffer", "ARRAY_BUFFER", m.normal_buffer),
       Step("vertex_attrib_pointer", locations.normal, 3),
       Step("uniform_matrix4fv", locations.p_matrix, ProjMatrix(w, h)),
       Step("uniform_matrix4fv", locations.v_matrix, view_matrix),
       Step("uniform_matrix4fv", locations.m_matrix, mov),
       Step("bind_buffer", "ELEMENT_ARRAY_BUFFER", ziggurat.index_buffer),
       Step("draw_elements", "TRIANGLES", m.num_indices) >>

(* lines 286-314: the draw block of one BoundMesh *)
DrawMesh(m, mov, w, h) ==
    << Step("bind_buffer", "ARRAY_BUFFER", m.vertex_buffer),
       Step("vertex_attrib_pointer", locations.position, 3),
       Step("bind_buffer", "ARRAY_BUFFER", m.color_buffer),
       Step("vertex_attrib_pointer", locations.color, 3),
       Step("bind_buffer", "ARRAY_BUFFER", m.normal_buffer),
       Step("vertex_attrib_pointer", locations.normal, 3),
       Step("uniform_matrix4fv", locations.p_matrix, ProjMatrix(w, h)),
       Step("uniform_matrix4fv", locations.v_matrix, view_matrix),
       Step("uniform_matrix4fv", locations.m_matrix, mov),
       Step("bind_buffer", "ELEMENT_ARRAY_BUFFER", m.index_buffer),
       Step("draw_elements", "TRIANGLES", m.num_indices) >>

(* lines 346-349 *)
FrameEnd ==
    << Step("request_animation_frame", 0, 0),
       Step("prev_keys", keys, 0) >>

AnimateTraceRequestFirst(time, mov, w, h) ==
    <<Step("request_animation_frame", 0, 0)>> \o FrameSetup(time, mov, w, h)
    \o DrawMesh(peon, mov, w, h) \o <<Step("prev_keys", keys, 0)>>

(* only the peon block is live; the ziggurat block (lines 316-344) is      *)
(* commented out                                                           *)
AnimateTrace(time, mov, w, h) ==
    FrameSetup(time, mov, w, h) \o DrawMesh(peon, mov, w, h) \o FrameEnd

RequestAnimationFrameNone(pending) == pending

RequestAnimationFrameTwice(pending) == pending + 2

(* window().request_animation_frame(..), line 346: one more callback is    *)
(* registered with the host                                                *)
RequestAnimationFrame(pending) == pending + 1

Animate(time, pending) ==
    /\ frame_time' = time
    /\ dt' = Dt(time, time_old)
    /\ euler' = EulerOf(dt', keys)
    /\ mov_matrix' = NewMovMatrix(mov_matrix, dt', keys)
    /\ time_old' = time
    /\ proj_aspect' = Aspect(canvas[1], canvas[2])
    /\ frame_trace' = AnimateTrace(time, mov_matrix', canvas[1], canvas[2])
    /\ raf_pending' = RequestAnimationFrame(pending)
    /\ prev_keys' = keys
    /\ frames' = frames + 1
    /\ tap' = IF tap = "since" THEN "frame" ELSE "none"
    /\ UNCHANGED <<inputs, offset, canvas, init_vars, view_matrix, keys,
                   console, last_press>>

(* RefCell::borrow_mut panics when the cell is already borrowed *)
BorrowMutPanics(flag) == flag # 0

BorrowMut(flag) == 1

ReleaseKept(flag) == flag

(* the RefMut temporary is dropped at the end of the statement that made it *)
Release(flag) == 0

(* the panic of a callback: the program stops *)
AlreadyBorrowed ==
    /\ pc' = "already_borrowed"
    /\ UNCHANGED <<inputs, offset, canvas, init_vars, state_vars, frame_vars,
                   console, last_press, tap, borrow>>

(* main, line 502: state.borrow_mut().animate(0., state.clone()) *)
FirstAnimate ==
    /\ pc = "first_frame"
    /\ IF BorrowMutPanics(borrow)
       THEN AlreadyBorrowed
       ELSE /\ pc' = "event_loop"
            /\ Animate(0, raf_pending)
            /\ borrow' = Release(BorrowMut(borrow))

(* the callback registered at line 346, run by the host with a later timestamp *)
FrameCallback ==
    /\ pc = "event_loop"
    /\ raf_pending > 0
    /\ \E time \in Times :
         /\ time > time_old
         /\ IF BorrowMutPanics(borrow)
            THEN AlreadyBorrowed
            ELSE /\ pc' = pc
                 /\ Animate(time, raf_pending - 1)
                 /\ borrow' = Release(BorrowMut(borrow))

(* the KeyDownEvent listener, lines 480-489 *)
KeyDown ==
    /\ pc = "event_loop"
    /\ \E code \in KeyCodes :
         IF code \in MovementCodes /\ BorrowMutPanics(borrow)
         THEN AlreadyBorrowed
         ELSE /\ keys' = KeyDownHandler(keys, code)
              /\ last_press' = IF code \in MovementCodes
                               THEN [last_press EXCEPT ![code] = TRUE]
                               ELSE last_press
              /\ tap' = IF code \in MovementCodes THEN "since" ELSE tap
              /\ borrow' = IF code \in MovementCodes
                           THEN Release(BorrowMut(borrow))
                           ELSE borrow
              /\ UNCHANGED <<pc, inputs, offset, canvas, init_vars, time_old,
                             mov_matrix, view_matrix, prev_keys, frame_vars,
                             console>>

(* the KeyUpEvent listener, lines 491-500 *)
KeyUp ==
    /\ pc = "event_loop"
    /\ \E code \in KeyCodes :
         IF code \in MovementCodes /\ BorrowMutPanics(borrow)
         THEN AlreadyBorrowed
         ELSE /\ keys' = KeyUpHandler(keys, code)
              /\ last_press' = IF code \in MovementCodes
                               THEN [last_press EXCEPT ![code] = FALSE]
                               ELSE last_press
              /\ tap' = tap
              /\ borrow' = IF code \in MovementCodes
                           THEN Release(BorrowMut(borrow))
                           ELSE borrow
              /\ UNCHANGED <<pc, inputs, offset, canvas, init_vars, time_old,
                             mov_matrix, view_matrix, prev_keys, frame_vars,
                             console>>

(* the ResizeEvent listener, lines 399-405 *)
Resize ==
    /\ pc = "event_loop"
    /\ \E size \in Sizes :
         /\ offset' = size
         /\ canvas' = size
    /\ UNCHANGED <<pc, inputs, init_vars, state_vars, frame_vars, console, last_press, tap, borrow>>

Next ==
    \/ SetupCanvas
    \/ ParsePeon
    \/ BindPeon
    \/ ParseZiggurat
    \/ BindZiggurat
    \/ MakeShader
    \/ LookupLocations
    \/ ConstructState
    \/ FirstAnimate
    \/ FrameCallback
    \/ KeyDown
    \/ KeyUp
    \/ Resize

Spec == Init /\ [][Next]_vars

(* the host runs every registered frame callback at its next repaint *)
SpecLive == Init /\ [][Next]_vars /\ WF_vars(FrameCallback)

(***************************************************************************)
(* PlyMesh::parse and Mesh::bind on their own, over a larger set of        *)
(* documents: main at line 408.                                            *)
(***************************************************************************)
InitParse ==
    /\ pc = "parse_peon"
    /\ peon_ply \in ParseDocs
    /\ ziggurat_ply = TriangleDoc
    /\ shader_env = [vs |-> TRUE, fs |-> TRUE, link |-> TRUE, active |-> AllNames]
    /\ offset = <<4, 3>>
    /\ canvas = <<4, 3>>
    /\ InitRest

NextParse == ParsePeon \/ BindPeon

SpecParse == InitParse /\ [][NextParse]_vars

(***************************************************************************)
(* Properties.                                                             *)
(***************************************************************************)
FlagNames == {"UP", "DOWN", "LEFT", "RIGHT"}

Bit(S, name, weight) == IF name \in S THEN weight ELSE 0

MaskOf(S) == Bit(S, "UP", 1) + Bit(S, "DOWN", 2) + Bit(S, "LEFT", 4) + Bit(S, "RIGHT", 8)

PressedNames ==
    {n \in FlagNames :
        \/ n = "UP" /\ last_press["KeyW"]
        \/ n = "DOWN" /\ last_press["KeyS"]
        \/ n = "LEFT" /\ last_press["KeyA"]
        \/ n = "RIGHT" /\ last_press["KeyD"]}

(* C1: each of the flags UP, DOWN, LEFT, RIGHT is set exactly when the     *)
(* latest event for its own key (KeyW, KeyS, KeyA, KeyD) was a press, and  *)
(* clear when that key has had no event; events for other keys and other   *)
(* key codes leave it alone.                                               *)
C1_FlagsFollowLatestEvent == keys = MaskOf(PressedNames)

C1_Witness ==
    /\ pc = "event_loop"
    /\ keys = 9
    /\ last_press["KeyW"] /\ last_press["KeyD"]
    /\ ~last_press["KeyS"] /\ ~last_press["KeyA"]
    /\ frames = 2

ExpectedEuler(d, S) ==
    [x |-> d * (Bit(S, "UP", 1) - Bit(S, "DOWN", 1)),
     y |-> d * (Bit(S, "RIGHT", 1) - Bit(S, "LEFT", 1)),
     z |-> 0]

(* C2: every invocation of State::animate, for each of the 16 flag         *)
(* combinations, multiplies mov_matrix by the rotation with                *)
(* pitch = dt*0.001*(UP - DOWN), yaw = dt*0.001*(RIGHT - LEFT), roll = 0,  *)
(* where dt is the timestamp minus the previous timestamp.                 *)
C2_RotationFromKeys ==
    [][frames' # frames =>
        \A S \in SUBSET FlagNames :
            MaskOf(S) = keys =>
                LET e == ExpectedEuler(time_old' - time_old, S) IN
                /\ euler' = e
                /\ mov_matrix' =
                     IF e.x = 0 /\ e.y = 0 THEN mov_matrix
                     ELSE Append(mov_matrix, [kind |-> "rot", x |-> e.x, y |-> e.y, z |-> 0])
    ]_vars

C2_Witness ==
    /\ frames = 3
    /\ prev_keys = 1
    /\ dt = 16
    /\ euler = [x |-> 16, y |-> 0, z |-> 0]
    /\ Len(mov_matrix) = 1

(* C3: an invocation of State::animate that runs while no flag is set      *)
(* leaves mov_matrix unchanged, whatever dt is.                            *)
C3_NoKeysNoRotation ==
    [][(frames' # frames /\ keys = 0) => mov_matrix' = mov_matrix]_vars

C3_Witness ==
    /\ frames = 2
    /\ time_old = 16
    /\ dt = 16
    /\ prev_keys = 0
    /\ mov_matrix = Identity

ExpectedTypes(e) ==
    /\ \A p \in {e.x, e.y, e.z, e.nx, e.ny, e.nz} : p.type = "Float"
    /\ \A p \in {e.red, e.green, e.blue} : p.type = "UChar"

LacksColor(e) ==
    /\ \A p \in {e.x, e.y, e.z, e.nx, e.ny, e.nz} : p.type = "Float"
    /\ \E p \in {e.red, e.green, e.blue} : p.type # "UChar"

ListTypes == {"ListUInt", "ListInt"}

FacesInRange(doc) ==
    \A i \in DOMAIN doc.face.elems :
        LET p == doc.face.elems[i].vertex_indices IN
        /\ p.type \in ListTypes
        /\ \A j \in DOMAIN p.val : p.val[j] < Len(doc.vertex.elems)

ValidDoc(doc) ==
    /\ doc.vertex.present
    /\ doc.face.present
    /\ \A i \in DOMAIN doc.vertex.elems : ExpectedTypes(doc.vertex.elems[i])
    /\ FacesInRange(doc)

Triples(a) == Len(a) \div 3

(* C4: for a valid document the arrays returned by PlyMesh::parse hold     *)
(* the same number of triples in positions, normals and colors, and every  *)
(* value in indices is smaller than the number of position triples.        *)
C4_ParallelArrays ==
    (pc = "bind_peon" /\ ValidDoc(peon_ply)) =>
        /\ Len(mesh.vertices) = 3 * Triples(mesh.vertices)
        /\ Len(mesh.normals) = Len(mesh.vertices)
        /\ Len(mesh.colors) = Len(mesh.vertices)
        /\ \A i \in DOMAIN mesh.indices : mesh.indices[i] < Triples(mesh.vertices)

C4_Witness ==
    /\ pc = "bind_peon"
    /\ ValidDoc(peon_ply)
    /\ Len(mesh.vertices) = 9
    /\ mesh.indices = <<0, 1, 2, 2, 1, 0>>

OneVertexLacksColor(doc) ==
    /\ doc.vertex.present
    /\ doc.face.present
    /\ FacesInRange(doc)
    /\ \E i \in DOMAIN doc.vertex.elems :
         /\ LacksColor(doc.vertex.elems[i])
         /\ \A j \in DOMAIN doc.vertex.elems \ {i} : ExpectedTypes(doc.vertex.elems[j])

(* C5: when one vertex lacks its color property (or has it with another   *)
(* type), PlyMesh::parse fails or returns colors one triple short with a   *)
(* triple per vertex in positions and normals, and no returned index is    *)
(* out of bounds for any returned attribute array.                         *)
C5_NoIndexOutOfBounds ==
    (pc = "bind_peon" /\ OneVertexLacksColor(peon_ply)) =>
        /\ Triples(mesh.vertices) = Len(peon_ply.vertex.elems)
        /\ Triples(mesh.normals) = Len(peon_ply.vertex.elems)
        /\ Triples(mesh.colors) = Len(peon_ply.vertex.elems) - 1
        /\ \A i \in DOMAIN mesh.indices :
             /\ mesh.indices[i] < Triples(mesh.vertices)
             /\ mesh.indices[i] < Triples(mesh.normals)
             /\ mesh.indices[i] < Triples(mesh.colors)

(* C6: a frame that runs while the canvas height is 0 uses the aspect      *)
(* ratio of height 1 for the projection, not width divided by 0.           *)
C6_ZeroHeightGuarded ==
    \A i \in DOMAIN frame_trace :
        (frame_trace[i].op = "viewport" /\ frame_trace[i].b = 0) =>
            /\ proj_aspect = F32Div(frame_trace[i].a, 1)
            /\ proj_aspect.kind = "finite"

(* C7: the BoundMesh returned by Mesh::bind stores a num_indices equal to  *)
(* the length of the mesh's indices array, whatever that length is.        *)
C7_NumIndicesIsLength ==
    pc = "parse_ziggurat" =>
        peon.num_indices = Len(gl_buffers[peon.index_buffer].data)

AllExpectedTypes(doc) ==
    /\ doc.vertex.present
    /\ doc.face.present
    /\ \A i \in DOMAIN doc.vertex.elems : ExpectedTypes(doc.vertex.elems[i])
    /\ \A i \in DOMAIN doc.face.elems : doc.face.elems[i].vertex_indices.type = "ListUInt"

RECURSIVE Concat(_)
Concat(faces) ==
    IF faces = << >> THEN << >>
    ELSE Head(faces).vertex_indices.val \o Concat(Tail(faces))

(* C8: for a document whose properties all have the expected types,       *)
(* PlyMesh::parse returns the x,y,z of every vertex in order, the nx,ny,nz *)
(* in order, each red,green,blue byte divided by 255, and the face lists   *)
(* concatenated in face order with every value unchanged.                  *)
C8_ArraysUnmodified ==
    (pc = "bind_peon" /\ AllExpectedTypes(peon_ply)) =>
        LET v == peon_ply.vertex.elems IN
        /\ Len(mesh.vertices) = 3 * Len(v)
        /\ Len(mesh.normals) = 3 * Len(v)
        /\ Len(mesh.colors) = 3 * Len(v)
        /\ \A i \in DOMAIN v :
             /\ mesh.vertices[3 * i - 2] = v[i].x.val
             /\ mesh.vertices[3 * i - 1] = v[i].y.val
             /\ mesh.vertices[3 * i] = v[i].z.val
             /\ mesh.normals[3 * i - 2] = v[i].nx.val
             /\ mesh.normals[3 * i - 1] = v[i].ny.val
             /\ mesh.normals[3 * i] = v[i].nz.val
             /\ mesh.colors[3 * i - 2] = [kind |-> "finite", num |-> v[i].red.val, den |-> 255]
             /\ mesh.colors[3 * i - 1] = [kind |-> "finite", num |-> v[i].green.val, den |-> 255]
             /\ mesh.colors[3 * i] = [kind |-> "finite", num |-> v[i].blue.val, den |-> 255]
        /\ mesh.indices = Concat(peon_ply.face.elems)

LacksElement(doc) == ~doc.vertex.present \/ ~doc.face.present

(* C9: when a document has no "vertex" or no "face" element,               *)
(* PlyMesh::parse aborts instead of returning a mesh, and no frame is      *)
(* ever run or scheduled afterwards.                                       *)
C9_MissingElementAborts ==
    /\ LacksElement(peon_ply) =>
         /\ pc \in {"setup", "parse_peon", "aborted"}
         /\ mesh = NoMesh
         /\ peon = NoBoundMesh
    /\ LacksElement(ziggurat_ply) =>
         /\ pc \in {"setup", "parse_peon", "bind_peon", "parse_ziggurat", "aborted"}
         /\ ziggurat = NoBoundMesh
    /\ (LacksElement(peon_ply) \/ LacksElement(ziggurat_ply)) =>
         /\ frames = 0
         /\ raf_pending = 0
         /\ frame_trace = << >>

C9_Witness ==
    /\ pc = "aborted"
    /\ ~LacksElement(peon_ply)
    /\ ~ziggurat_ply.face.present
    /\ peon.num_indices = 3
    /\ Len(gl_buffers) = 4

ShaderFails == ~shader_env.vs \/ ~shader_env.fs \/ ~shader_env.link

(* C10: a shader that fails to compile or link never aborts the process:  *)
(* initialization completes, the frame loop starts and every frame clears  *)
(* the buffers.                                                            *)
C10_BrokenShaderRuns ==
    (ShaderFails /\ ~LacksElement(peon_ply) /\ ~LacksElement(ziggurat_ply)) =>
        /\ pc # "aborted"
        /\ frames > 0 => \E i \in DOMAIN frame_trace : frame_trace[i].op = "clear"

Where(op) == {i \in DOMAIN frame_trace : frame_trace[i].op = op}

Before(A, B) == A # {} /\ B # {} /\ \A i \in A : \A j \in B : i < j

TransformSteps == Where("mov_matrix") \cup Where("time_old")

(* C11 as stated: in every invocation of State::animate the buffers are    *)
(* cleared, then mov_matrix and time_old are updated, then the three       *)
(* matrices are uploaded, then the indexed draw call is issued, then the   *)
(* next frame is requested.                                                *)
C11_ClearThenUpdate ==
    frames > 0 =>
        /\ Before(Where("clear"), TransformSteps)
        /\ Before(TransformSteps, Where("uniform_matrix4fv"))
        /\ Before(Where("uniform_matrix4fv"), Where("draw_elements"))
        /\ Before(Where("draw_elements"), Where("request_animation_frame"))

(* C11 amended: in every invocation of State::animate mov_matrix and       *)
(* time_old are updated first, then the buffers are cleared, then the      *)
(* three matrices are uploaded, then the indexed draw call is issued, and  *)
(* only then is the next frame requested.                                  *)
C11_UpdateThenClear ==
    frames > 0 =>
        /\ Before(TransformSteps, Where("clear"))
        /\ Before(Where("clear"), Where("uniform_matrix4fv"))
        /\ Cardinality(Where("uniform_matrix4fv")) = 3
        /\ Before(Where("uniform_matrix4fv"), Where("draw_elements"))
        /\ Before(Where("draw_elements"), Where("request_animation_frame"))

C11_Witness ==
    /\ frames = 2
    /\ Where("clear") = {9}
    /\ Where("draw_elements") = {24}
    /\ Where("request_animation_frame") = {25}
    /\ Len(mov_matrix) = 1

Horizon == 16 * MaxTick

(* C12: once the first frame has run, every invocation of State::animate   *)
(* leaves exactly one further invocation requested, and under a host that  *)
(* delivers every requested callback each frame (before the last           *)
(* timestamp of the model) is eventually followed by another frame,        *)
(* whatever key and resize events are interleaved.                         *)
C12_FramesKeepComing ==
    /\ [](frames > 0 => raf_pending = 1)
    /\ \A n \in 1..MaxTick : (frames = n /\ time_old < Horizon) ~> (frames > n)

C12_Witness ==
    /\ frames = MaxTick + 1
    /\ time_old = Horizon
    /\ raf_pending = 1
    /\ keys = 5

RequestsIn(trace) == {i \in DOMAIN trace : trace[i].op = "request_animation_frame"}

(* C13: at most one frame callback is pending with the host at any         *)
(* moment; a frame request is registered only by an invocation of          *)
(* State::animate, exactly once per invocation, and an invocation other    *)
(* than the first runs only by consuming the one pending callback, so      *)
(* frames never overlap.                                                   *)
C13_OnePendingFrame ==
    /\ [](raf_pending \in {0, 1})
    /\ [][/\ frames' = frames => raf_pending' = raf_pending
          /\ frames' # frames =>
               /\ frames' = frames + 1
               /\ frames > 0 => raf_pending = 1
               /\ raf_pending' = 1
               /\ Cardinality(RequestsIn(frame_trace')) = 1
       ]_vars

C13_Witness ==
    /\ frames = 3
    /\ raf_pending = 1
    /\ Cardinality(RequestsIn(frame_trace)) = 1
    /\ time_old = 32

(* C14: time_old is 0 at construction and after every frame equals that   *)
(* frame's timestamp; every frame's dt is its timestamp minus the          *)
(* previous frame's timestamp, the first frame's dt is the first           *)
(* invocation's timestamp, and dt is never negative.                       *)
C14_DtFromPreviousTimestamp ==
    /\ [](frames = 0 => time_old = 0)
    /\ [](frames > 0 => time_old = frame_time /\ dt >= 0)
    /\ [][frames' # frames =>
            /\ dt' = frame_time' - time_old
            /\ frames = 0 => dt' = frame_time'
            /\ frames > 0 => dt' = frame_time' - frame_time
       ]_vars

C14_Witness ==
    /\ frames = 3
    /\ frame_time = 32
    /\ time_old = 32
    /\ dt = 16

(* C15: key events are not queued.  The rotation of a frame is the one of  *)
(* the keys whose latest event, when the frame runs, is a press, over the  *)
(* whole dt of that frame: a key pressed and released again since the      *)
(* previous frame contributes nothing, and a key pressed at any moment     *)
(* since the previous frame and still held rotates for the whole dt.       *)
C15_NoEventQueue ==
    [][frames' # frames =>
          /\ euler' = ExpectedEuler(time_old' - time_old, PressedNames)
          /\ mov_matrix' = MatMul(mov_matrix, FromEuler(euler'))
          /\ (tap = "since" /\ PressedNames = {}) =>
                 /\ euler' = [x |-> 0, y |-> 0, z |-> 0]
                 /\ mov_matrix' = mov_matrix
          /\ (tap = "since" /\ PressedNames = {"UP"}) =>
                 /\ euler'.x = time_old' - time_old
                 /\ mov_matrix' # mov_matrix
    ]_vars

C15_Witness ==
    /\ frames = 3
    /\ tap = "frame"
    /\ prev_keys = 0
    /\ dt = 16
    /\ euler = [x |-> 0, y |-> 0, z |-> 0]
    /\ mov_matrix = << [kind |-> "rot", x |-> 16, y |-> 0, z |-> 0] >>

(* C16: when one of the six names cannot be resolved in the linked program *)
(* the lookup yields a sentinel and the program keeps running: neither     *)
(* initialization nor a frame aborts, and no frame passes the sentinel     *)
(* (-1 as u32) to the context as an attribute location.                    *)
Sentinel == AsU32(-1)

AttribSteps == {"enable_vertex_attrib_array", "vertex_attrib_pointer"}

C16_UnresolvedNameTolerated ==
    /\ (shader.linked /\ shader_env.active # AllNames) => pc # "aborted"
    /\ \A i \in 1..Len(frame_trace) :
           frame_trace[i].op \in AttribSteps => frame_trace[i].a # Sentinel

(* the steps before step i that satisfy: bind_buffer to the given target *)
BindsBefore(i, target) ==
    {j \in 1..(i - 1) :
        frame_trace[j].op = "bind_buffer" /\ frame_trace[j].a = target}

Latest(S) == CHOOSE j \in S : \A k \in S : k <= j

(* the buffer bound to the target when step i is issued, 0 for none *)
BoundAt(i, target) ==
    IF BindsBefore(i, target) = {} THEN 0
    ELSE frame_trace[Latest(BindsBefore(i, target))].b

PointersBefore(i, loc) ==
    {j \in 1..(i - 1) :
        frame_trace[j].op = "vertex_attrib_pointer" /\ frame_trace[j].a = loc}

(* the buffer the attribute at loc reads from when step i is issued *)
AttribSource(i, loc) ==
    IF PointersBefore(i, loc) = {} THEN 0
    ELSE BoundAt(Latest(PointersBefore(i, loc)), "ARRAY_BUFFER")

(* the draw calls issued while the index buffer of m is bound *)
DrawsOf(m) ==
    {i \in Where("draw_elements") :
        BoundAt(i, "ELEMENT_ARRAY_BUFFER") = m.index_buffer}

DrawnOnceWithOwnBuffers(m) ==
    /\ Cardinality(DrawsOf(m)) = 1
    /\ \A i \in DrawsOf(m) :
           /\ frame_trace[i].a = "TRIANGLES"
           /\ frame_trace[i].b = m.num_indices
           /\ AttribSource(i, locations.position) = m.vertex_buffer
           /\ AttribSource(i, locations.color) = m.color_buffer
           /\ AttribSource(i, locations.normal) = m.normal_buffer

(* C17 as stated: in every frame each bound mesh the State holds (peon     *)
(* and ziggurat) is drawn by exactly one indexed triangle-list draw call   *)
(* with its own index count while its own four buffers are bound.          *)
C17_EveryHeldMeshDrawn ==
    frames > 0 =>
        /\ DrawnOnceWithOwnBuffers(peon)
        /\ DrawnOnceWithOwnBuffers(ziggurat)

(* C17, amended: in every frame the peon mesh is drawn by exactly one      *)
(* indexed triangle-list draw call with its own index count while its own  *)
(* four buffers are bound; that is the only draw call of the frame, and    *)
(* the ziggurat mesh, which the State also holds, is not drawn and none of *)
(* its buffers is bound.                                                   *)
C17_PeonDrawnOnce ==
    frames > 0 =>
        /\ DrawnOnceWithOwnBuffers(peon)
        /\ Where("draw_elements") = DrawsOf(peon)
        /\ DrawsOf(ziggurat) = {}
        /\ \A j \in Where("bind_buffer") :
               frame_trace[j].b \in {peon.vertex_buffer, peon.color_buffer,
                                     peon.normal_buffer, peon.index_buffer}

C17_Witness ==
    /\ frames = 2
    /\ peon.num_indices = 3
    /\ peon.index_buffer = 4
    /\ ziggurat.index_buffer = 8
    /\ Cardinality(Where("draw_elements")) = 1
    /\ BoundAt(Len(frame_trace), "ELEMENT_ARRAY_BUFFER") = 4

HandleSet(m) ==
    {m.vertex_buffer, m.normal_buffer, m.color_buffer, m.index_buffer}

(* C18: buffers are created and uploaded only by the two Mesh::bind calls  *)
(* of main, four per bound mesh, before the first frame; no frame, key     *)
(* event or resize event creates, re-uploads or drops a buffer or changes  *)
(* a BoundMesh; the eight handles of peon and ziggurat are pairwise        *)
(* distinct buffers of the context.                                        *)
C18_BuffersOnlyAtInit ==
    /\ [][gl_buffers' # gl_buffers =>
              /\ pc \in {"bind_peon", "bind_ziggurat"}
              /\ frames = 0
              /\ Len(gl_buffers') = Len(gl_buffers) + 4
              /\ SubSeq(gl_buffers', 1, Len(gl_buffers)) = gl_buffers
       ]_vars
    /\ [][(peon' # peon \/ ziggurat' # ziggurat) =>
              pc \in {"bind_peon", "bind_ziggurat"} /\ frames = 0
       ]_vars
    /\ [](pc \in {"first_frame", "event_loop"} =>
              /\ Len(gl_buffers) = 8
              /\ HandleSet(peon) \cup HandleSet(ziggurat) \subseteq 1..Len(gl_buffers)
              /\ Cardinality(HandleSet(peon) \cup HandleSet(ziggurat)) = 8)

C18_Witness ==
    /\ frames = 3
    /\ Len(gl_buffers) = 8
    /\ HandleSet(peon) = 1..4
    /\ HandleSet(ziggurat) = 5..8
    /\ keys # 0

Constructed == pc \in {"first_frame", "event_loop"}

(* C19: once the State is built view_matrix is the translation by          *)
(* (0, 0, -6) and no frame, key event or resize event changes it; key      *)
(* events and resize events leave mov_matrix and time_old unchanged: only  *)
(* an invocation of State::animate modifies them.                          *)
C19_ViewMatrixFixed ==
    /\ [](Constructed =>
              view_matrix = << [kind |-> "trans", x |-> 0, y |-> 0, z |-> -6] >>)
    /\ [][Constructed => view_matrix' = view_matrix]_vars
    /\ [][(Constructed /\ frames' = frames) =>
              mov_matrix' = mov_matrix /\ time_old' = time_old
       ]_vars
    /\ [][(Constructed /\ (mov_matrix' # mov_matrix \/ time_old' # time_old)) =>
              frames' = frames + 1 /\ frame_time' = time_old'
       ]_vars

C19_Witness ==
    /\ frames = 3
    /\ time_old = 32
    /\ mov_matrix # Identity
    /\ view_matrix = << [kind |-> "trans", x |-> 0, y |-> 0, z |-> -6] >>
    /\ tap = "since"
    /\ canvas = <<4, 3>>
    /\ proj_aspect # Aspect(4, 3)

(* C20: with callbacks that run one after the other, the RefCell<State> is *)
(* never mutably borrowed while a borrow of it is active: the first        *)
(* animate call of main, a frame callback and a key listener each find the *)
(* cell unused and leave it unused, in every interleaving of frames and    *)
(* key events, so none of them panics.                                     *)
C20_NoDoubleBorrow ==
    /\ pc # "already_borrowed"
    /\ borrow = 0

C20_Witness ==
    /\ frames = 3
    /\ borrow = 0
    /\ pc = "event_loop"
    /\ keys = UP + LEFT
    /\ prev_keys = DOWN
    /\ tap = "since"

====
